---- MODULE Spec2Model ----
(***************************************************************************)
(* Model of economist_democracy_index.py: the Data class (loader,          *)
(* classifier, aggregations, geographic merge, regime migration matrix).   *)
(*                                                                         *)
(* Floats are records [nan, val]: val counts units of 1/ScoreUnit, and a   *)
(* comparison with NaN is false, as in IEEE 754.  The raw CSV file is      *)
(* [columns, rows]; a column header is [year, rank] for the texts "<year>" *)
(* and "<year> rank", year being the characters of the number; a row       *)
(* carries Region, Country, RegimeType and one cell per column.            *)
(* get_raw_data reads the tables of a web page and writes a file the       *)
(* loader does not read.                                                   *)
(***************************************************************************)
EXTENDS Integers, Sequences, FiniteSets, TLC

VARIABLES
    csv,    \* data/economist-democracy-index/raw/democracy_index.csv
    shp,    \* the NAME column of ne_110m_admin_0_countries.shp
    op,     \* the operation that ran last
    args,   \* its arguments
    ret,    \* what it returned or raised
    wiki,   \* the tables of the page The_Economist_Democracy_Index
    out,    \* data/raw/democracy_index.csv, the file get_raw_data writes
    fetches \* the requests for the page made so far

vars == <<csv, shp, op, args, ret, wiki, out, fetches>>

-----------------------------------------------------------------------------
(* Bounds of the model                                                     *)

\* the most rows of a raw table
MaxRows == 2

\* the most rows of the boundary dataset
MaxShapes == 2

\* a score is a whole number of 1/ScoreUnit
ScoreUnit == 1000

\* the top of the scale of the index
MaxScore == 10

-----------------------------------------------------------------------------
(* Floating point values                                                   *)

NaN == [nan |-> TRUE, val |-> 0]

Num(n) == [nan |-> FALSE, val |-> n]

\* x >= t for a float x and a threshold t (in units): false when x is NaN
Ge(x, t) == ~x.nan /\ x.val >= t

Gt(x, t) == ~x.nan /\ x.val > t

\* x - y on floats
Sub(x, y) == IF x.nan \/ y.nan THEN NaN ELSE Num(x.val - y.val)

Add(x, y) == IF x.nan \/ y.nan THEN NaN ELSE Num(x.val + y.val)

-----------------------------------------------------------------------------
(* Data.assign_regime_type                                                 *)

assign_regime_type_strict(democracy_index) ==
    IF Gt(democracy_index, 8 * ScoreUnit) THEN "Full democracy"
    ELSE IF Gt(democracy_index, 6 * ScoreUnit) THEN "Flawed democracy"
    ELSE IF Gt(democracy_index, 4 * ScoreUnit) THEN "Hybrid regime"
    ELSE "Authoritarian"

\* the classifier with a missing score left unclassified
assign_regime_type_skipna(democracy_index) ==
    IF democracy_index.nan THEN "nan"
    ELSE IF Ge(democracy_index, 8 * ScoreUnit) THEN "Full democracy"
    ELSE IF Ge(democracy_index, 6 * ScoreUnit) THEN "Flawed democracy"
    ELSE IF Ge(democracy_index, 4 * ScoreUnit) THEN "Hybrid regime"
    ELSE "Authoritarian"

assign_regime_type(democracy_index) ==
    IF Ge(democracy_index, 8 * ScoreUnit) THEN "Full democracy"
    ELSE IF Ge(democracy_index, 6 * ScoreUnit) THEN "Flawed democracy"
    ELSE IF Ge(democracy_index, 4 * ScoreUnit) THEN "Hybrid regime"
    ELSE "Authoritarian"

-----------------------------------------------------------------------------
(* Data._setup_data: read the file, drop the rank columns, melt            *)

\* the ten digits, as the characters of a column header
Digits == <<"0", "1", "2", "3", "4", "5", "6", "7", "8", "9">>

\* str(n): the decimal text of a natural number, a sequence of characters
RECURSIVE str(_)
str(n) ==
    IF n < Len(Digits) THEN <<Digits[n + 1]>>
    ELSE str(n \div Len(Digits)) \o <<Digits[(n % Len(Digits)) + 1]>>

\* the value of a digit character
digit(ch) ==
    CASE ch = "0" -> 0 [] ch = "1" -> 1 [] ch = "2" -> 2 [] ch = "3" -> 3
      [] ch = "4" -> 4 [] ch = "5" -> 5 [] ch = "6" -> 6 [] ch = "7" -> 7
      [] ch = "8" -> 8 [] ch = "9" -> 9

\* the number the first k characters of a text spell
RECURSIVE parse_int(_, _)
parse_int(text, k) ==
    IF k = 0 THEN 0
    ELSE parse_int(text, k - 1) * Len(Digits) + digit(text[k])

\* astype(int) on a header: the number its digits spell
astype_int(text) == parse_int(text, Len(text))

\* the value columns when the rank columns are not dropped
RECURSIVE value_columns_all(_, _)
value_columns_all(columns, k) ==
    IF k > Len(columns) THEN <<>>
    ELSE <<k>> \o value_columns_all(columns, k + 1)

\* the positions of the columns that survive the drop of ' rank' columns
RECURSIVE value_columns(_, _)
value_columns(columns, k) ==
    IF k > Len(columns) THEN <<>>
    ELSE (IF columns[k].rank THEN <<>> ELSE <<k>>)
         \o value_columns(columns, k + 1)

\* melt: one row per (value column, input row), column by column
setup_data(file) ==
    LET keep == value_columns(file.columns, 1)
        c == Len(file.rows)
        years == [j \in DOMAIN keep |-> astype_int(file.columns[keep[j]].year)]
    IN  [k \in 1..(c * Len(keep)) |->
            LET j == ((k - 1) \div c) + 1
                r == file.rows[((k - 1) % c) + 1]
            IN  [Region |-> r.Region, Country |-> r.Country,
                 RegimeType |-> r.RegimeType,
                 Year |-> years[j],
                 DemocracyIndex |-> r.cells[keep[j]]]]

\* Data().df: every call builds a new Data object from the file
Data_df == setup_data(csv)

-----------------------------------------------------------------------------
(* Data.get_yearly_data                                                    *)

\* get_yearly_data that keeps the RegimeType of the file
get_yearly_data_source(year) ==
    SelectSeq(Data_df, LAMBDA r : r.Year = year)

\* get_yearly_data that leaves out the rows without a score
get_yearly_data_dropna(year) ==
    LET df == SelectSeq(Data_df,
                        LAMBDA r : r.Year = year /\ ~r.DemocracyIndex.nan)
    IN  [k \in 1..Len(df) |->
            [df[k] EXCEPT !.RegimeType =
                              assign_regime_type(df[k].DemocracyIndex)]]

get_yearly_data(year) ==
    LET df == SelectSeq(Data_df, LAMBDA r : r.Year = year)
    IN  [k \in 1..Len(df) |->
            [df[k] EXCEPT !.RegimeType =
                              assign_regime_type(df[k].DemocracyIndex)]]

-----------------------------------------------------------------------------
(* Data.get_migration_matrix                                               *)

regimes ==
    <<"Authoritarian", "Hybrid regime", "Flawed democracy", "Full democracy">>

n_regimes == Len(regimes)

\* numpy broadcasting of two one-dimensional arrays of lengths a and b
broadcastable_strict(a, b) == a = b

broadcastable(a, b) == a = b \/ a = 1 \/ b = 1

broadcast_len(a, b) == IF a = 1 THEN b ELSE a

broadcast_at(x, k) == x[IF Len(x) = 1 THEN 1 ELSE k]

count_both_swapped(df1, r1, df2, r2) ==
    Cardinality({k \in 1..broadcast_len(Len(df1), Len(df2)) :
                    /\ broadcast_at(df1, k).RegimeType = r2
                    /\ broadcast_at(df2, k).RegimeType = r1})

count_both_or(df1, r1, df2, r2) ==
    Cardinality({k \in 1..broadcast_len(Len(df1), Len(df2)) :
                    \/ broadcast_at(df1, k).RegimeType = r1
                    \/ broadcast_at(df2, k).RegimeType = r2})

\* ((df1["RegimeType"].to_numpy() == r1)
\*  & (df2["RegimeType"].to_numpy() == r2)).sum()
count_both(df1, r1, df2, r2) ==
    Cardinality({k \in 1..broadcast_len(Len(df1), Len(df2)) :
                    /\ broadcast_at(df1, k).RegimeType = r1
                    /\ broadcast_at(df2, k).RegimeType = r2})

\* np.zeros((n, n)), indexed from 0
zeros(n) == [i \in 0..(n - 1) |-> [j \in 0..(n - 1) |-> Num(0)]]

\* the double loop over enumerate(regimes)
fill_block(m, df1, df2) ==
    [i \in DOMAIN m |-> [j \in DOMAIN m |->
        IF i < n_regimes /\ j < n_regimes
        THEN Num(count_both(df1, regimes[i + 1], df2, regimes[j + 1]))
        ELSE m[i][j]]]

\* m[-1, -1] = np.nan
set_corner(m) == [m EXCEPT ![n_regimes][n_regimes] = NaN]

\* np.sum(m[:n_regimes, :n_regimes], axis=0)[j]
RECURSIVE sum_axis0(_, _, _)
sum_axis0(m, j, i) ==
    IF i >= n_regimes THEN Num(0) ELSE Add(m[i][j], sum_axis0(m, j, i + 1))

\* np.sum(m[:n_regimes, :n_regimes], axis=1)[i]
RECURSIVE sum_axis1(_, _, _)
sum_axis1(m, i, j) ==
    IF j >= n_regimes THEN Num(0) ELSE Add(m[i][j], sum_axis1(m, i, j + 1))

\* m[-1, :] = np.sum(m[:n_regimes, :], axis=0): the slice reaches the corner
set_totals_row_whole(m) ==
    [m EXCEPT ![n_regimes] =
        [j \in DOMAIN m |-> sum_axis0(m, j, 0)]]

\* m[-1, :n_regimes] = np.sum(m[:n_regimes, :n_regimes], axis=0)
set_totals_row(m) ==
    [m EXCEPT ![n_regimes] =
        [j \in DOMAIN m |->
            IF j < n_regimes THEN sum_axis0(m, j, 0) ELSE m[n_regimes][j]]]

\* the totals column filled with the sums along axis 0
set_totals_column_axis0(m) ==
    [i \in DOMAIN m |->
        IF i < n_regimes THEN [m[i] EXCEPT ![n_regimes] = sum_axis0(m, i, 0)]
        ELSE m[i]]

\* m[:n_regimes, -1] = np.sum(m[:n_regimes, :n_regimes], axis=1)
set_totals_column(m) ==
    [i \in DOMAIN m |->
        IF i < n_regimes THEN [m[i] EXCEPT ![n_regimes] = sum_axis1(m, i, 0)]
        ELSE m[i]]

\* a matrix kept between calls and added to, instead of a fresh np.zeros
get_migration_matrix_kept(start_year, end_year) ==
    LET df1 == get_yearly_data(start_year)
        df2 == get_yearly_data(end_year)
        old == IF ret.kind = "ndarray" THEN ret.m ELSE zeros(n_regimes + 1)
        new == fill_block(zeros(n_regimes + 1), df1, df2)
        acc == [i \in DOMAIN old |-> [j \in DOMAIN old |->
                    IF i < n_regimes /\ j < n_regimes
                    THEN Add(old[i][j], new[i][j]) ELSE old[i][j]]]
    IN  IF ~broadcastable(Len(df1), Len(df2))
        THEN [kind |-> "raise", exc |-> "ValueError"]
        ELSE [kind |-> "ndarray",
              m |-> set_totals_column(set_totals_row(set_corner(acc)))]

\* the element-wise & raises ValueError when the two year filters give
\* arrays that do not broadcast; the comparison of an empty array with a
\* string is the empty boolean array (numpy >= 1.25)
get_migration_matrix(start_year, end_year) ==
    LET df1 == get_yearly_data(start_year)
        df2 == get_yearly_data(end_year)
    IN  IF ~broadcastable(Len(df1), Len(df2))
        THEN [kind |-> "raise", exc |-> "ValueError"]
        ELSE [kind |-> "ndarray",
              m |-> set_totals_column(set_totals_row(set_corner(
                        fill_block(zeros(n_regimes + 1), df1, df2))))]

-----------------------------------------------------------------------------
(* Data.get_world_average                                                  *)

RECURSIVE sort_values(_)
sort_values(S) ==
    IF S = {} THEN <<>>
    ELSE LET lo == CHOOSE x \in S : \A y \in S : x <= y
         IN  <<lo>> \o sort_values(S \ {lo})

RECURSIVE sum_values(_, _)
sum_values(values, k) ==
    IF k > Len(values) THEN 0 ELSE values[k].val + sum_values(values, k + 1)

\* a mean is the exact fraction num/den, or NaN
NaN_mean == [nan |-> TRUE, num |-> 0, den |-> 1]

\* the mean with skipna=False
mean_keepna(values) ==
    IF Len(values) = 0 \/ \E k \in DOMAIN values : values[k].nan THEN NaN_mean
    ELSE [nan |-> FALSE, num |-> sum_values(values, 1), den |-> Len(values)]

\* GroupBy.mean(): skipna, NaN for a group without a valid value
mean(values) ==
    LET valid == SelectSeq(values, LAMBDA v : ~v.nan)
    IN  IF Len(valid) = 0 THEN NaN_mean
        ELSE [nan |-> FALSE, num |-> sum_values(valid, 1), den |-> Len(valid)]

\* the DemocracyIndex column of the rows of df of one year, in order
group_values(df, year) ==
    LET g == SelectSeq(df, LAMBDA r : r.Year = year)
    IN  [k \in 1..Len(g) |-> g[k].DemocracyIndex]

\* groupby("Year")["DemocracyIndex"].mean().reset_index(...): the groups
\* come sorted by key
get_world_average ==
    LET df == Data_df
        keys == sort_values({df[k].Year : k \in DOMAIN df})
    IN  [k \in 1..Len(keys) |->
            [Year |-> keys[k],
             DemocracyIndex |-> mean(group_values(df, keys[k]))]]

-----------------------------------------------------------------------------
(* Data.get_merged_dataframe and Data.get_yearly_geographic_data           *)

to_replace ==
    <<"Bosnia and Herz.", "Côte d'Ivoire", "United States of America",
      "Central African Rep.", "Eq. Guinea", "Congo", "eSwatini",
      "Czechia", "Dominican Rep.", "Dem. Rep. Congo", "Timor-Leste",
      "Greenland", "Falkland Is.">>

value ==
    <<"Bosnia and Herzegovina", "Ivory Coast", "United States",
      "Central African Republic", "Equatorial Guinea",
      "Republic of the Congo", "Eswatini", "Czech Republic",
      "Dominican Republic", "Democratic Republic of the Congo",
      "East Timor", "Denmark", "Argentina">>

\* countries.replace(to_replace=to_replace, value=value), on a NAME
replace(name) ==
    IF \E k \in DOMAIN to_replace : to_replace[k] = name
    THEN value[CHOOSE k \in DOMAIN to_replace : to_replace[k] = name]
    ELSE name

\* countries.merge(data, left_on="NAME", right_on="Country", how="left"):
\* the boundary rows in their order, each with its matching data rows, or
\* with missing values in the data columns when nothing matches
RECURSIVE merge_left(_, _, _)
merge_left(names, data, k) ==
    IF k > Len(names) THEN <<>>
    ELSE LET hits == SelectSeq(data, LAMBDA r : r.Country = names[k])
             rows ==
                IF Len(hits) = 0
                THEN << [NAME |-> names[k], Region |-> "nan",
                         Country |-> "nan", RegimeType |-> "nan",
                         Year |-> NaN, DemocracyIndex |-> NaN] >>
                ELSE [h \in 1..Len(hits) |->
                        [NAME |-> names[k], Region |-> hits[h].Region,
                         Country |-> hits[h].Country,
                         RegimeType |-> hits[h].RegimeType,
                         Year |-> Num(hits[h].Year),
                         DemocracyIndex |-> hits[h].DemocracyIndex]]
         IN  rows \o merge_left(names, data, k + 1)

get_merged_dataframe ==
    merge_left([k \in DOMAIN shp |-> replace(shp[k])], Data_df, 1)

get_yearly_geographic_data(year) ==
    LET merged == get_merged_dataframe
        land == SelectSeq(merged, LAMBDA r : r.NAME # "Antarctica")
        df == SelectSeq(land, LAMBDA r : ~r.Year.nan /\ r.Year.val = year)
    IN  [k \in 1..Len(df) |->
            [df[k] EXCEPT !.RegimeType =
                              assign_regime_type(df[k].DemocracyIndex)]]

-----------------------------------------------------------------------------
(* Data.get_index_change_geographic_data                                   *)

\* the difference taken the other way round
subtract_reversed(a, b) ==
    [k \in 1..broadcast_len(Len(a), Len(b)) |->
        Sub(broadcast_at(b, k), broadcast_at(a, k))]

\* a - b on two one-dimensional arrays that broadcast
subtract(a, b) ==
    [k \in 1..broadcast_len(Len(a), Len(b)) |->
        Sub(broadcast_at(a, k), broadcast_at(b, k))]

\* the DemocracyIndex column of the rows of a year, as an array
to_numpy(df, year) ==
    LET rows == SelectSeq(df, LAMBDA r : ~r.Year.nan /\ r.Year.val = year)
    IN  [k \in 1..Len(rows) |-> rows[k].DemocracyIndex]

get_index_change_geographic_data(start_year, end_year) ==
    LET merged == get_merged_dataframe
        land == SelectSeq(merged, LAMBDA r : r.NAME # "Antarctica")
        a == to_numpy(land, end_year)
        b == to_numpy(land, start_year)
        df == SelectSeq(land,
                        LAMBDA r : ~r.Year.nan /\ r.Year.val = end_year)
    IN  IF ~broadcastable(Len(a), Len(b))
        THEN [kind |-> "raise", exc |-> "ValueError"]
        ELSE LET index_change == subtract(a, b)
             IN  IF Len(index_change) # Len(df)
                 THEN [kind |-> "raise", exc |-> "ValueError"]
                 ELSE [kind |-> "DataFrame",
                       df |-> [k \in 1..Len(df) |->
                          [NAME |-> df[k].NAME, Region |-> df[k].Region,
                           Country |-> df[k].Country,
                           RegimeType |-> df[k].RegimeType,
                           Year |-> df[k].Year,
                           DemocracyIndex |-> df[k].DemocracyIndex,
                           IndexChange |-> index_change[k]]]]

-----------------------------------------------------------------------------
(* Data.get_raw_data: fetch the page, take its sixth table, write the file *)
(* A table of the page is [columns, rows]; in a text the character "-"     *)
(* inside "Austral-asia" and "Carib-bean" stands for the soft hyphen       *)
(* U+00AD.  str.replace is modelled on whole cells.                        *)

\* the index of the table of scores among the tables of the page
TableIndex == 5

\* the file before get_raw_data has written it
Absent == [kind |-> "absent"]

\* df.rename(columns={"Regime type": "RegimeType"})
rename(column) == IF column = "Regime type" THEN "RegimeType" ELSE column

\* the two replacements applied to every text cell
clean(x) ==
    IF x = "Asia and Austral-asia" THEN "Asia and Australasia"
    ELSE IF x = "Latin America and the Carib-bean"
         THEN "Latin America and the Caribbean"
    ELSE x

\* df.map over the cells: texts are cleaned, numbers are left alone
map_clean(rows) ==
    [k \in DOMAIN rows |->
        [Region |-> clean(rows[k].Region), Country |-> clean(rows[k].Country),
         Label |-> clean(rows[k].Label), Score |-> rows[k].Score]]

\* pandas.read_html: the tables of the page, or ValueError when it has none
read_html(html) ==
    IF Len(html) = 0
    THEN [kind |-> "raise", exc |-> "ValueError", msg |-> "No tables found"]
    ELSE [kind |-> "tables", tables |-> html]

\* the file written from the table
to_csv(df) ==
    [kind |-> "file",
     columns |-> [c \in DOMAIN df.columns |-> rename(df.columns[c])],
     rows |-> map_clean(df.rows)]

\* get_raw_data without the handler of IndexError
get_raw_data_unhandled ==
    LET tables == read_html(wiki)
    IN  IF tables.kind = "raise"
        THEN [ret |-> tables, out |-> out, fetched |-> 1]
        ELSE IF TableIndex + 1 > Len(tables.tables)
        THEN [ret |-> [kind |-> "raise", exc |-> "IndexError",
                       msg |-> "list index out of range"],
              out |-> out, fetched |-> 1]
        ELSE [ret |-> [kind |-> "None"],
              out |-> to_csv(tables.tables[TableIndex + 1]), fetched |-> 1]

\* one request for the page; what the call returns or raises, and the file
get_raw_data ==
    LET tables == read_html(wiki)
    IN  IF tables.kind = "raise"
        THEN [ret |-> tables, out |-> out, fetched |-> 1]
        ELSE IF TableIndex + 1 > Len(tables.tables)
        THEN [ret |-> [kind |-> "raise", exc |-> "ValueError",
                       msg |-> "The expected table was not found on the Wikipedia."],
              out |-> out, fetched |-> 1]
        ELSE [ret |-> [kind |-> "None"],
              out |-> to_csv(tables.tables[TableIndex + 1]), fetched |-> 1]

-----------------------------------------------------------------------------
(* The inputs: the files the loader reads                                  *)

\* plot_regime_migration(start_year=2006, end_year=2024)
FirstYear == 2006

LastYear == 2024

Years == {FirstYear, LastYear}

year_column(y) == [year |-> str(y), rank |-> FALSE]

rank_column(y) == [year |-> str(y), rank |-> TRUE]

BothYears == <<year_column(FirstYear), year_column(LastYear)>>

Layouts ==
    { <<>>,
      <<year_column(FirstYear)>>,
      <<year_column(LastYear)>>,
      <<rank_column(LastYear), year_column(LastYear)>>,
      BothYears }

\* one score of each regime type, among them the values next to a threshold
CategoryScores ==
    { Num(4 * ScoreUnit - 1), Num(4 * ScoreUnit), Num(6 * ScoreUnit),
      Num(8 * ScoreUnit) }

\* and a missing score
Scores == CategoryScores \cup {NaN}

GeoScores == { NaN, Num(4 * ScoreUnit), Num(8 * ScoreUnit) }

CountryNames ==
    <<"Denmark", "Argentina", "United States", "Norway", "Chad", "Japan">>

RegionNames ==
    <<"Western Europe", "Latin America and the Caribbean", "North America",
      "Western Europe", "Sub-Saharan Africa", "Asia and Australasia">>

\* names of the boundary dataset: a country of the index data, an alias of
\* it, an alias of another country, the continent the maps leave out, and
\* a country the index data does not have
BoundaryNames ==
    {"Denmark", "Greenland", "Falkland Is.", "Antarctica", "Somalia"}

\* the table with the given columns and, per row, the scores of its value
\* columns; row k of the file is country k, and a rank column holds k
raw_table(columns, scores) ==
    [columns |-> columns,
     rows |-> [k \in DOMAIN scores |->
        [Region |-> RegionNames[k], Country |-> CountryNames[k],
         RegimeType |-> "Hybrid regime",
         cells |-> [c \in DOMAIN columns |->
            IF columns[c].rank THEN Num(k)
            ELSE scores[k][Cardinality({d \in 1..c : ~columns[d].rank})]]]]]

\* the score tables of n rows for the given columns
ScoreTables(columns, n, S) ==
    [1..n -> [1..Len(value_columns(columns, 1)) -> S]]

EmptyTable == raw_table(<<>>, <<>>)

\* the table with the RegimeType labels of its rows replaced
relabel(file, labels) ==
    [columns |-> file.columns,
     rows |-> [k \in DOMAIN file.rows |->
        [Region |-> file.rows[k].Region, Country |-> file.rows[k].Country,
         RegimeType |-> labels[k], cells |-> file.rows[k].cells]]]

\* the RegimeType labels a row of the file may carry
SourceLabels == {"Authoritarian", "Full democracy"}

\* the scores of the tables whose labels vary
LoadScores == { NaN, Num(4 * ScoreUnit - 1), Num(8 * ScoreUnit) }

\* the longest page, in tables
MaxTables == 7

\* the most requests for the page in one behaviour
MaxFetches == 2

\* a table of the page with one row
page_table(column, region) ==
    [columns |-> <<"Region", "Country", column, "2024">>,
     rows |-> <<[Region |-> region, Country |-> "Japan",
                 Label |-> "Full democracy", Score |-> Num(8 * ScoreUnit)]>>]

PageTables ==
    { page_table("Regime type", "Asia and Austral-asia"),
      page_table("Regime type", "Latin America and the Carib-bean"),
      page_table("Type", "Western Europe") }

\* the arguments of the classifier: every score of the scale, and NaN
ClassifierInputs == {NaN} \cup {Num(v) : v \in 0..(MaxScore * ScoreUnit)}

\* the example of the transition matrix: the regime types of three
\* countries in the start year and in the end year
ExampleStart == <<"Full democracy", "Hybrid regime", "Authoritarian">>

ExampleEnd == <<"Full democracy", "Full democracy", "Authoritarian">>

-----------------------------------------------------------------------------
(* The operations                                                          *)

\* the score is drawn when the behaviour starts; the call classifies it
AssignRegimeType ==
    /\ op = "init"
    /\ op' = "assign_regime_type"
    /\ args' = args
    /\ ret' = [kind |-> "str", v |-> assign_regime_type(args[1])]
    /\ UNCHANGED <<csv, shp, wiki, out, fetches>>

GetMigrationMatrix(start_year, end_year) ==
    /\ op' = "get_migration_matrix"
    /\ args' = <<start_year, end_year>>
    /\ ret' = get_migration_matrix(start_year, end_year)
    /\ UNCHANGED <<csv, shp, wiki, out, fetches>>

GetWorldAverage ==
    /\ op' = "get_world_average"
    /\ args' = <<>>
    /\ ret' = [kind |-> "DataFrame", df |-> get_world_average]
    /\ UNCHANGED <<csv, shp, wiki, out, fetches>>

\* Data(): the constructor reads the file and keeps the long table
LoadData ==
    /\ op' = "Data"
    /\ args' = <<>>
    /\ ret' = [kind |-> "DataFrame", df |-> Data_df]
    /\ UNCHANGED <<csv, shp, wiki, out, fetches>>

GetRawData ==
    /\ fetches < MaxFetches
    /\ op' = "get_raw_data"
    /\ args' = <<>>
    /\ ret' = get_raw_data.ret
    /\ out' = get_raw_data.out
    /\ fetches' = fetches + get_raw_data.fetched
    /\ UNCHANGED <<csv, shp, wiki>>

GetYearlyGeographicData(year) ==
    /\ op' = "get_yearly_geographic_data"
    /\ args' = <<year>>
    /\ ret' = [kind |-> "DataFrame", df |-> get_yearly_geographic_data(year)]
    /\ UNCHANGED <<csv, shp, wiki, out, fetches>>

GetIndexChangeGeographicData(start_year, end_year) ==
    /\ op' = "get_index_change_geographic_data"
    /\ args' = <<start_year, end_year>>
    /\ ret' = get_index_change_geographic_data(start_year, end_year)
    /\ UNCHANGED <<csv, shp, wiki, out, fetches>>

-----------------------------------------------------------------------------
(* Spec: the migration matrix and the world average over every raw table   *)
(* of at most MaxRows countries                                            *)

Init ==
    /\ \E columns \in Layouts, n \in 0..MaxRows :
            \E scores \in ScoreTables(columns, n, Scores) :
                csv = raw_table(columns, scores)
    /\ shp = <<>>
    /\ op = "init"
    /\ args = <<>>
    /\ ret = [kind |-> "None"]
    /\ wiki = <<>>
    /\ out = Absent
    /\ fetches = 0

Next ==
    \/ \E start_year \in Years, end_year \in Years :
            GetMigrationMatrix(start_year, end_year)
    \/ GetWorldAverage

Spec == Init /\ [][Next]_vars

(* SpecClassify: the classifier on every score of the scale                *)

InitClassify ==
    /\ csv = EmptyTable
    /\ shp = <<>>
    /\ op = "init"
    /\ \E s \in ClassifierInputs : args = <<s>>
    /\ ret = [kind |-> "None"]
    /\ wiki = <<>>
    /\ out = Absent
    /\ fetches = 0

NextClassify == AssignRegimeType

SpecClassify == InitClassify /\ [][NextClassify]_vars

(* SpecExample: the migration matrix over the tables of as many countries  *)
(* as the example has, every country with a score in both years            *)

InitExample ==
    /\ \E n \in 0..Len(ExampleStart) :
            \E scores \in ScoreTables(BothYears, n, CategoryScores) :
                csv = raw_table(BothYears, scores)
    /\ shp = <<>>
    /\ op = "init"
    /\ args = <<>>
    /\ ret = [kind |-> "None"]
    /\ wiki = <<>>
    /\ out = Absent
    /\ fetches = 0

NextExample == GetMigrationMatrix(FirstYear, LastYear)

SpecExample == InitExample /\ [][NextExample]_vars

(* SpecGeo: the yearly geographic data over small boundary datasets, the    *)
(* index data holding MaxRows countries with both years                    *)

InitGeo ==
    /\ \E scores \in ScoreTables(BothYears, MaxRows, GeoScores) :
            csv = raw_table(BothYears, scores)
    /\ \E n \in 0..MaxShapes :
            \E names \in [1..n -> BoundaryNames] :
                /\ \A a, b \in 1..n : names[a] = names[b] => a = b
                /\ shp = names
    /\ op = "init"
    /\ args = <<>>
    /\ ret = [kind |-> "None"]
    /\ wiki = <<>>
    /\ out = Absent
    /\ fetches = 0

\* one call on the two files: the calls read them and change nothing
NextGeo ==
    \/ op = "init" /\ \E year \in Years : GetYearlyGeographicData(year)
    \/ op = "init" /\ \E start_year \in Years, end_year \in Years :
          GetIndexChangeGeographicData(start_year, end_year)

SpecGeo == InitGeo /\ [][NextGeo]_vars

\* the loader and the matrix on tables whose RegimeType labels vary
InitLoad ==
    /\ \E columns \in Layouts, n \in 0..MaxRows :
          \E scores \in ScoreTables(columns, n, LoadScores),
             labels \in [1..n -> SourceLabels] :
             csv = relabel(raw_table(columns, scores), labels)
    /\ shp = <<>>
    /\ op = "init"
    /\ args = <<>>
    /\ ret = [kind |-> "None"]
    /\ wiki = <<>>
    /\ out = Absent
    /\ fetches = 0

NextLoad ==
    \/ LoadData
    \/ \E start_year \in Years, end_year \in Years :
          GetMigrationMatrix(start_year, end_year)

SpecLoad == InitLoad /\ [][NextLoad]_vars

\* get_raw_data on a page of any number of tables
InitRaw ==
    /\ csv = EmptyTable
    /\ shp = <<>>
    /\ op = "init"
    /\ args = <<>>
    /\ ret = [kind |-> "None"]
    /\ \E n \in 0..MaxTables : \E tables \in [1..n -> PageTables] :
          wiki = tables
    /\ out = Absent
    /\ fetches = 0

NextRaw == GetRawData

SpecRaw == InitRaw /\ [][NextRaw]_vars

-----------------------------------------------------------------------------
(* What the claims speak of, read off the raw table itself                 *)

RegimeSet == {regimes[k] : k \in DOMAIN regimes}

\* the raw table has a score column for year y
HasYear(y) ==
    \E c \in DOMAIN csv.columns :
        ~csv.columns[c].rank /\ csv.columns[c].year = str(y)

\* the score of country k (row k of the raw table) in year y
ScoreOf(k, y) ==
    csv.rows[k].cells[CHOOSE c \in DOMAIN csv.columns :
                          ~csv.columns[c].rank /\ csv.columns[c].year = str(y)]

\* the countries with an observation for year y
Observed(y) == IF HasYear(y) THEN DOMAIN csv.rows ELSE {}

\* the regime type of country k in year y
CategoryOf(k, y) == assign_regime_type(ScoreOf(k, y))

\* the countries of regime type r1 in year y1 and r2 in year y2
Movers(y1, r1, y2, r2) ==
    {k \in Observed(y1) \cap Observed(y2) :
        CategoryOf(k, y1) = r1 /\ CategoryOf(k, y2) = r2}

Block == 0..(n_regimes - 1)

MatrixReturned == op = "get_migration_matrix" /\ ret.kind = "ndarray"

RowSum(m, i) == m[i][0].val + m[i][1].val + m[i][2].val + m[i][3].val

ColumnSum(m, j) == m[0][j].val + m[1][j].val + m[2][j].val + m[3][j].val

BlockSum(m) == RowSum(m, 0) + RowSum(m, 1) + RowSum(m, 2) + RowSum(m, 3)

-----------------------------------------------------------------------------
(* The claims                                                              *)

\* C1: for every numeric score s, assign_regime_type(s) is one of the four
\* regime types, chosen by inclusive lower bounds: s >= 8.0 gives Full
\* democracy, else s >= 6.0 Flawed democracy, else s >= 4.0 Hybrid regime,
\* else Authoritarian; 4.0, 6.0 and 8.0 fall in the higher type and the
\* values just below them in the lower one.
C1_Thresholds ==
    op = "assign_regime_type" =>
        LET s == args[1]
            r == ret.v
        IN  /\ r \in RegimeSet
            /\ ~s.nan =>
                /\ r = "Full democracy" <=> s.val >= 8 * ScoreUnit
                /\ r = "Flawed democracy" <=>
                        (s.val >= 6 * ScoreUnit /\ s.val < 8 * ScoreUnit)
                /\ r = "Hybrid regime" <=>
                        (s.val >= 4 * ScoreUnit /\ s.val < 6 * ScoreUnit)
                /\ r = "Authoritarian" <=> s.val < 4 * ScoreUnit
                /\ s.val = 4 * ScoreUnit - 1 => r = "Authoritarian"
                /\ s.val = 4 * ScoreUnit => r = "Hybrid regime"
                /\ s.val = 6 * ScoreUnit - 1 => r = "Hybrid regime"
                /\ s.val = 6 * ScoreUnit => r = "Flawed democracy"
                /\ s.val = 8 * ScoreUnit - 1 => r = "Flawed democracy"
                /\ s.val = 8 * ScoreUnit => r = "Full democracy"

C1_Witness ==
    /\ op = "assign_regime_type"
    /\ args[1] = Num(6 * ScoreUnit)
    /\ ret.v = "Flawed democracy"

\* C2: in the matrix get_migration_matrix(start_year, end_year) returns,
\* cell (i, j), for i, j in 0..3 in the order Authoritarian, Hybrid regime,
\* Flawed democracy, Full democracy, is the number of countries of regime
\* type i at start_year and j at end_year.
C2_Cells ==
    MatrixReturned =>
        \A i, j \in Block :
            ret.m[i][j] =
                Num(Cardinality(Movers(args[1], regimes[i + 1],
                                       args[2], regimes[j + 1])))

C2_Witness ==
    /\ MatrixReturned
    /\ args = <<FirstYear, LastYear>>
    /\ ret.m[1][3] = Num(1)
    /\ ret.m[2][0] = Num(1)

\* C3: in the returned matrix the totals column entry (i, 4) is the sum of
\* the cells (i, 0..3), the totals row entry (4, j) is the sum of the cells
\* (0..3, j), and cell (4, 4) is NaN: no marginal sum overwrites it.
C3_Totals ==
    MatrixReturned =>
        /\ \A i \in Block : ret.m[i][n_regimes] = Num(RowSum(ret.m, i))
        /\ \A j \in Block : ret.m[n_regimes][j] = Num(ColumnSum(ret.m, j))
        /\ ret.m[n_regimes][n_regimes] = NaN

C3_Witness ==
    /\ MatrixReturned
    /\ ret.m[0][n_regimes] = Num(1)
    /\ ret.m[1][n_regimes] = Num(1)
    /\ ret.m[n_regimes][3] = Num(2)
    /\ ret.m[n_regimes][n_regimes].nan

\* C4: the sixteen block cells of a matrix built from n matched countries
\* add up to n: every matched country is counted in exactly one cell.
C4_BlockSum ==
    MatrixReturned =>
        BlockSum(ret.m) = Cardinality(Observed(args[1]) \cap Observed(args[2]))

C4_Witness ==
    /\ MatrixReturned
    /\ Cardinality(Observed(args[1]) \cap Observed(args[2])) = 2
    /\ BlockSum(ret.m) = 2
    /\ ret.m[0][1] = Num(1)

\* the example's case: three countries with the regime types of the example
ExampleGiven ==
    /\ MatrixReturned
    /\ Len(csv.rows) = Len(ExampleStart)
    /\ \A k \in DOMAIN ExampleStart :
            /\ CategoryOf(k, args[1]) = ExampleStart[k]
            /\ CategoryOf(k, args[2]) = ExampleEnd[k]

RegimeIndex(r) == CHOOSE i \in Block : regimes[i + 1] = r

ExampleCells ==
    { <<RegimeIndex(ExampleStart[k]), RegimeIndex(ExampleEnd[k])>> :
        k \in DOMAIN ExampleStart }

\* M[Full,Full] = 1, M[Hybrid,Full] = 1, M[Authoritarian,Authoritarian] = 1
\* and every other block cell 0
ExampleBlock ==
    \A i, j \in Block :
        ret.m[i][j] = IF <<i, j>> \in ExampleCells THEN Num(1) ELSE Num(0)

TotalsColumn == [i \in 1..n_regimes |-> ret.m[i - 1][n_regimes].val]

TotalsRow == [j \in 1..n_regimes |-> ret.m[n_regimes][j - 1].val]

\* C5 as stated: for start-year types [Full, Hybrid, Authoritarian] and
\* end-year types [Full, Full, Authoritarian], matched by position, the
\* block is as above, the totals column is [1,1,0,0] and the totals row is
\* [1,1,0,0].
C5_AsStated ==
    ExampleGiven =>
        /\ ExampleBlock
        /\ TotalsColumn = <<1, 1, 0, 0>>
        /\ TotalsRow = <<1, 1, 0, 0>>

\* C5, amended: for the example's types the block is as above, the totals
\* column (Authoritarian, Hybrid, Flawed, Full at the start year) is
\* [1,1,0,1] and the totals row (the same order, at the end year) is
\* [1,0,0,2].
C5_Example ==
    ExampleGiven =>
        /\ ExampleBlock
        /\ TotalsColumn = <<1, 1, 0, 1>>
        /\ TotalsRow = <<1, 0, 0, 2>>

C5_Witness == ExampleGiven /\ args = <<FirstYear, LastYear>>

\* country k has an observation with a score for year y
Present(k, y) == k \in Observed(y) /\ ~ScoreOf(k, y).nan

\* the countries present in exactly one of the two years
InOneYearOnly(y1, y2) ==
    {k \in DOMAIN csv.rows : Present(k, y1) # Present(k, y2)}

\* C6 as stated: when a country is present in only one of the two years (no
\* observation, or no score, in the other), get_migration_matrix raises no
\* error and no cell of the matrix counts such a country: a cell counts at
\* most the countries of its two regime types that are present in both.
C6_OneYearOnly ==
    (op = "get_migration_matrix" /\ InOneYearOnly(args[1], args[2]) # {}) =>
        /\ ret.kind = "ndarray"
        /\ \A i, j \in Block :
                ret.m[i][j].val <=
                    Cardinality({k \in Movers(args[1], regimes[i + 1],
                                             args[2], regimes[j + 1]) :
                                    Present(k, args[1]) /\ Present(k, args[2])})

\* both inputs of the matrix are empty: no country for either year
EmptyInputs == Observed(args[1]) = {} /\ Observed(args[2]) = {}

Scored(y) == {k \in Observed(y) : ~ScoreOf(k, y).nan}

\* the years with an observation
YearsPresent == {y \in Years : Observed(y) # {}}

\* the sum of the scores of the countries S in year y
RECURSIVE Total(_, _)
Total(S, y) ==
    IF S = {} THEN 0
    ELSE LET k == CHOOSE x \in S : TRUE
         IN  ScoreOf(k, y).val + Total(S \ {k}, y)

OneRowPerYear(df) ==
    /\ {df[k].Year : k \in DOMAIN df} = YearsPresent
    /\ Len(df) = Cardinality(YearsPresent)

\* C9 as stated: get_world_average has one row per year present, and its
\* value for year y is the sum of the scores of all observations of year y
\* divided by their count (not a number when a score among them is missing).
C9_AsStated ==
    op = "get_world_average" =>
        /\ OneRowPerYear(ret.df)
        /\ \A k \in DOMAIN ret.df :
            LET y == ret.df[k].Year
                a == ret.df[k].DemocracyIndex
            IN  IF Scored(y) # Observed(y) THEN a.nan
                ELSE /\ ~a.nan
                     /\ a.den > 0
                     /\ a.num * Cardinality(Observed(y))
                            = a.den * Total(Observed(y), y)

\* C9, amended: get_world_average has one row per year present, and its
\* value for year y is the arithmetic mean of the scores that are not
\* missing among the observations of year y: their sum divided by their
\* count, and NaN when the year has no score at all.
C9_WorldAverage ==
    op = "get_world_average" =>
        /\ OneRowPerYear(ret.df)
        /\ \A k \in DOMAIN ret.df :
            LET y == ret.df[k].Year
                a == ret.df[k].DemocracyIndex
            IN  IF Scored(y) = {} THEN a.nan
                ELSE /\ ~a.nan
                     /\ a.den > 0
                     /\ a.num * Cardinality(Scored(y))
                            = a.den * Total(Scored(y), y)

C9_Witness ==
    /\ op = "get_world_average"
    /\ Len(ret.df) = Cardinality(Years)
    /\ ret.df[1].Year = FirstYear
    /\ ret.df[1].DemocracyIndex =
            [nan |-> FALSE, num |-> 12 * ScoreUnit, den |-> 2]
    /\ ret.df[2].DemocracyIndex =
            [nan |-> FALSE, num |-> 6 * ScoreUnit, den |-> 1]

\* the boundary name matches no country of the index data, also after the
\* substitution of the aliases
Unmatched(name) ==
    \A k \in DOMAIN csv.rows : csv.rows[k].Country # replace(name)

\* C10 as stated: get_yearly_geographic_data raises no error and keeps every
\* boundary country (Antarctica aside) whose name matches no index-data
\* country as a row with a missing score, the row the map hatches as
\* 'No data'.
C10_UnmatchedKept ==
    op = "get_yearly_geographic_data" =>
        /\ ret.kind = "DataFrame"
        /\ \A s \in DOMAIN shp :
            (shp[s] # "Antarctica" /\ Unmatched(shp[s])) =>
                \E k \in DOMAIN ret.df :
                    /\ ret.df[k].NAME = replace(shp[s])
                    /\ ret.df[k].DemocracyIndex.nan

-----------------------------------------------------------------------------
(* C11: a call of get_raw_data on a page with fewer than six tables, so    *)
(* that index 5 is missing, requests the page once, raises ValueError      *)
(* with a message that says what was not found, and leaves the file        *)
(* data/raw/democracy_index.csv as it was.                                 *)

\* the page has no table at index 5
TableMissing == Len(wiki) < TableIndex + 1

C11_MissingTable ==
    [][ (op' = "get_raw_data" /\ TableMissing) =>
          /\ ret'.kind = "raise"
          /\ ret'.exc = "ValueError"
          /\ ret'.msg = (IF Len(wiki) = 0 THEN "No tables found"
                         ELSE "The expected table was not found on the Wikipedia.")
          /\ out' = out
          /\ fetches' = fetches + 1 ]_vars

C11_Witness ==
    /\ op = "get_raw_data"
    /\ Len(wiki) = TableIndex
    /\ ret.kind = "raise"
    /\ ret.exc = "ValueError"
    /\ out = Absent
    /\ fetches = 1

-----------------------------------------------------------------------------
(* C12: the long table Data builds from a file of c rows and y year        *)
(* columns (rank columns apart) has c * y rows, exactly one per input row  *)
(* and year column, and that row carries the input row's Region, Country   *)
(* and RegimeType, the year of the column as an integer, and the input     *)
(* row's cell of that column.                                              *)

\* the columns of the file that are no rank columns
YearColumns == {c \in DOMAIN csv.columns : ~csv.columns[c].rank}

\* the row of the long table for input row r and column c
LongRow(r, c) ==
    [Region |-> csv.rows[r].Region, Country |-> csv.rows[r].Country,
     RegimeType |-> csv.rows[r].RegimeType,
     Year |-> CHOOSE y \in Years : str(y) = csv.columns[c].year,
     DemocracyIndex |-> csv.rows[r].cells[c]]

C12_LongTable ==
    op = "Data" =>
        /\ Len(ret.df) = Len(csv.rows) * Cardinality(YearColumns)
        /\ \A r \in DOMAIN csv.rows : \A c \in YearColumns :
              Cardinality({k \in DOMAIN ret.df : ret.df[k] = LongRow(r, c)}) = 1
        /\ \A k \in DOMAIN ret.df : ret.df[k].Year \in Years

\* two input rows, a rank column and a year column: two rows
C12_Witness ==
    /\ op = "Data"
    /\ Len(csv.rows) = 2
    /\ \E c \in DOMAIN csv.columns : csv.columns[c].rank
    /\ Len(ret.df) = 2
    /\ \E r \in DOMAIN csv.rows : csv.rows[r].RegimeType = "Full democracy"

-----------------------------------------------------------------------------
(* C13: when both years are columns of the file, the start-year rows and   *)
(* the end-year rows that get_migration_matrix compares are equally many   *)
(* and hold the same country at every position, and every block cell of    *)
(* the returned matrix is the count an explicit join of the two row lists  *)
(* on Country gives.                                                       *)

\* the pairs of a start-year row and an end-year row of one country, of
\* regime type r1 at the start and r2 at the end
Joined(df1, r1, df2, r2) ==
    { p \in (DOMAIN df1) \X (DOMAIN df2) :
        /\ df1[p[1]].Country = df2[p[2]].Country
        /\ df1[p[1]].RegimeType = r1
        /\ df2[p[2]].RegimeType = r2 }

C13_Aligned ==
    (op = "get_migration_matrix" /\ HasYear(args[1]) /\ HasYear(args[2])) =>
        LET df1 == get_yearly_data(args[1])
            df2 == get_yearly_data(args[2])
        IN  /\ Len(df1) = Len(df2)
            /\ Len(df1) = Len(csv.rows)
            /\ \A k \in DOMAIN df1 : df1[k].Country = df2[k].Country
            /\ ret.kind = "ndarray"
            /\ \A i, j \in Block :
                  ret.m[i][j] =
                      Num(Cardinality(Joined(df1, regimes[i + 1],
                                             df2, regimes[j + 1])))

\* two countries that move between different regime types, one of them
\* without a score in the end year
C13_Witness ==
    /\ MatrixReturned
    /\ args = <<FirstYear, LastYear>>
    /\ HasYear(FirstYear) /\ HasYear(LastYear)
    /\ Len(csv.rows) = 2
    /\ ScoreOf(1, FirstYear) = Num(8 * ScoreUnit)
    /\ ScoreOf(1, LastYear) = NaN
    /\ ScoreOf(2, FirstYear) = Num(4 * ScoreUnit)
    /\ ScoreOf(2, LastYear) = Num(6 * ScoreUnit)
    /\ ret.m[3][0] = Num(1)
    /\ ret.m[1][2] = Num(1)

-----------------------------------------------------------------------------
(* C14: the regime type get_migration_matrix counts a country under in a   *)
(* year is the classifier's value for the country's score of that year:    *)
(* the rows of both years carry it in place of the RegimeType label of     *)
(* the file, and every block cell is the number of countries whose scores  *)
(* classify as the cell's pair, whatever labels the file holds.            *)

\* the rows of year y carry the classification of their own score
Reclassified(y) ==
    LET df == get_yearly_data(y)
    IN  \A k \in DOMAIN df :
            \E r \in DOMAIN csv.rows :
                /\ csv.rows[r].Country = df[k].Country
                /\ df[k].DemocracyIndex = ScoreOf(r, y)
                /\ df[k].RegimeType = assign_regime_type(ScoreOf(r, y))

\* the countries whose scores of the two years classify as r1 and r2
ByScore(y1, r1, y2, r2) ==
    { r \in DOMAIN csv.rows :
        /\ HasYear(y1) /\ HasYear(y2)
        /\ assign_regime_type(ScoreOf(r, y1)) = r1
        /\ assign_regime_type(ScoreOf(r, y2)) = r2 }

C14_ScoreOnly ==
    MatrixReturned =>
        /\ Reclassified(args[1])
        /\ Reclassified(args[2])
        /\ (HasYear(args[1]) /\ HasYear(args[2])) =>
              \A i, j \in Block :
                  ret.m[i][j].val =
                      Cardinality(ByScore(args[1], regimes[i + 1],
                                          args[2], regimes[j + 1]))

\* a file that labels a full democracy Authoritarian and an authoritarian
\* country Full democracy
C14_Witness ==
    /\ MatrixReturned
    /\ args = <<FirstYear, LastYear>>
    /\ HasYear(FirstYear) /\ HasYear(LastYear)
    /\ Len(csv.rows) = 2
    /\ csv.rows[1].RegimeType = "Authoritarian"
    /\ ScoreOf(1, FirstYear) = Num(8 * ScoreUnit)
    /\ ScoreOf(1, LastYear) = Num(8 * ScoreUnit)
    /\ csv.rows[2].RegimeType = "Full democracy"
    /\ ScoreOf(2, FirstYear) = Num(4 * ScoreUnit - 1)
    /\ ScoreOf(2, LastYear) = NaN
    /\ ret.m[3][3] = Num(1)
    /\ ret.m[0][0] = Num(1)

-----------------------------------------------------------------------------
(* C15: every row of the table get_index_change_geographic_data(start_year, *)
(* end_year) returns is the end_year row of a boundary country other than  *)
(* Antarctica, and its IndexChange is the end_year score minus the         *)
(* start_year score of the country the row names, also when the boundary   *)
(* name is an alias (Greenland for Denmark, Falkland Is. for Argentina);   *)
(* there is one row per boundary country that the index data has.          *)

\* the boundary rows that, once renamed, are countries of the index data
Drawn ==
    { s \in DOMAIN shp :
        /\ replace(shp[s]) # "Antarctica"
        /\ \E c \in DOMAIN csv.rows : csv.rows[c].Country = replace(shp[s]) }

\* the change of the score of the country called name
ChangeOf(name, start_year, end_year) ==
    LET c == CHOOSE r \in DOMAIN csv.rows : csv.rows[r].Country = name
    IN  Sub(ScoreOf(c, end_year), ScoreOf(c, start_year))

C15_IndexChange ==
    (op = "get_index_change_geographic_data" /\ ret.kind = "DataFrame") =>
        /\ Len(ret.df) = Cardinality(Drawn)
        /\ \A k \in DOMAIN ret.df :
              /\ ret.df[k].NAME # "Antarctica"
              /\ \E s \in Drawn : replace(shp[s]) = ret.df[k].NAME
              /\ ret.df[k].Country = ret.df[k].NAME
              /\ ret.df[k].Year = Num(args[2])
              /\ ret.df[k].DemocracyIndex =
                    ScoreOf(CHOOSE r \in DOMAIN csv.rows :
                               csv.rows[r].Country = ret.df[k].NAME, args[2])
              /\ ret.df[k].IndexChange =
                    ChangeOf(ret.df[k].NAME, args[1], args[2])

\* two aliases, in the order opposite to that of the index data, of
\* countries whose scores move in opposite directions
C15_Witness ==
    /\ op = "get_index_change_geographic_data"
    /\ ret.kind = "DataFrame"
    /\ args = <<FirstYear, LastYear>>
    /\ shp = <<"Falkland Is.", "Greenland">>
    /\ Len(ret.df) = 2
    /\ ret.df[1].NAME = "Argentina"
    /\ ret.df[1].IndexChange = Num(4 * ScoreUnit)
    /\ ret.df[2].NAME = "Denmark"
    /\ ret.df[2].IndexChange = Num(0 - 4 * ScoreUnit)

-----------------------------------------------------------------------------
(* C16: the classifier gives 'Authoritarian' for a missing score (NaN),    *)
(* and get_migration_matrix counts a country without a score as            *)
(* Authoritarian: the total of the Authoritarian row is the number of      *)
(* countries whose start-year score is missing or below 4, the total of    *)
(* the Authoritarian column the number of those whose end-year score is    *)
(* missing or below 4, and the block counts every country.                 *)

\* the countries without a score in year y
Missing(y) == {k \in DOMAIN csv.rows : ScoreOf(k, y).nan}

\* the countries with a score below the lowest threshold in year y
Lowest(y) ==
    {k \in DOMAIN csv.rows :
        ~ScoreOf(k, y).nan /\ ScoreOf(k, y).val < 4 * ScoreUnit}

C16_MissingCounted ==
    (MatrixReturned /\ HasYear(args[1]) /\ HasYear(args[2])) =>
        /\ \A y \in {args[1], args[2]} :
              \A k \in DOMAIN get_yearly_data(y) :
                  get_yearly_data(y)[k].DemocracyIndex.nan =>
                      /\ get_yearly_data(y)[k].RegimeType = "Authoritarian"
                      /\ assign_regime_type(NaN) = "Authoritarian"
        /\ ret.m[0][n_regimes].val =
              Cardinality(Missing(args[1]) \cup Lowest(args[1]))
        /\ ret.m[n_regimes][0].val =
              Cardinality(Missing(args[2]) \cup Lowest(args[2]))
        /\ BlockSum(ret.m) = Len(csv.rows)

\* one country without a score at the start, one without a score at the end
C16_Witness ==
    /\ MatrixReturned
    /\ args = <<FirstYear, LastYear>>
    /\ HasYear(FirstYear) /\ HasYear(LastYear)
    /\ Len(csv.rows) = 2
    /\ ScoreOf(1, FirstYear) = NaN
    /\ ScoreOf(1, LastYear) = Num(8 * ScoreUnit)
    /\ ScoreOf(2, FirstYear) = Num(8 * ScoreUnit)
    /\ ScoreOf(2, LastYear) = NaN
    /\ ret.m[0][3] = Num(1)
    /\ ret.m[3][0] = Num(1)
    /\ ret.m[0][n_regimes] = Num(1)
    /\ ret.m[n_regimes][0] = Num(1)

=============================================================================
